---- MODULE Spec2Model ----
(***************************************************************************)
(* State-machine model of the storefront in src/app.py: the signed-cookie  *)
(* session holding the cart, the Product / Order / User tables, and the    *)
(* request handlers add_to_cart, cart_view, checkout, register, login and  *)
(* logout.                                                                 *)
(*                                                                         *)
(* A request is served in steps.  Send: the browser sends the request with *)
(* the session cookie it holds and Flask opens the session from it.  One   *)
(* or two handler steps: the view function runs against the database.      *)
(* Recv: the browser receives the response and stores the session cookie   *)
(* the response sets.  Requests of one browser may overlap (a double       *)
(* submit), each working on its own copy of the session.                   *)
(*                                                                         *)
(* Prices are floats in the code; the model uses small integers, on which  *)
(* the code's left-to-right sum is exact.                                  *)
(***************************************************************************)
EXTENDS Integers, Sequences, FiniteSets, TLC

\* ------------------------------------------------------------------ bounds
\* Largest quantity a cart entry may reach through add_to_cart (Python ints
\* are unbounded; the guard of the add action stops the counter here).
MaxQty == 2
\* Largest number of rows of the Order table.
MaxOrders == 2
\* Largest number of rows of the User table.
MaxUsers == 2
\* Number of requests a browser sends in one run.
MaxRequests == 4

\* ------------------------------------------------------------ Python values
\* Python's None where the code compares or stores it as an id.
NoId == 0

\* An empty dict.
EmptyDict == [k \in {} |-> 0]

\* d.get(k, default)
DictGet(d, k, default) == IF k \in DOMAIN d THEN d[k] ELSE default

\* d with d[k] = v
DictSet(d, k, v) == [x \in DOMAIN d \cup {k} |-> IF x = k THEN v ELSE d[x]]

\* d without key k
DictDel(d, k) == [x \in DOMAIN d \ {k} |-> d[x]]

\* int(s) of the strings the model submits: the value, or no entry where
\* Python raises ValueError.
IntTable ==
    [s \in {"-1", "0", "1", "2", "3", "01"} |->
        CASE s = "-1" -> 0 - 1
          [] s = "0"  -> 0
          [] s = "1"  -> 1
          [] s = "2"  -> 2
          [] s = "3"  -> 3
          [] s = "01" -> 1]

\* Whether int(s) succeeds.
IsInt(s) == s \in DOMAIN IntTable

\* int(s), for IsInt(s).
ToInt(s) == IntTable[s]

\* str(n) of a product id.
ToStr(n) == CASE n = 1 -> "1" [] n = 2 -> "2" [] n = 3 -> "3"

Max(a, b) == IF a >= b THEN a ELSE b

\* --------------------------------------------------------------- the cart
\* session["cart"] is a dict {product id string: qty}; a dict keeps the order
\* in which its keys were inserted, so it is a sequence of entries with
\* distinct keys.
CartKeys(c) == {c[i].pid : i \in DOMAIN c}

\* cart.get(k, default)
CartGet(c, k, default) ==
    IF \E i \in DOMAIN c : c[i].pid = k
    THEN (CHOOSE e \in {c[i] : i \in DOMAIN c} : e.pid = k).qty
    ELSE default

\* cart[k] = q: in place when k is a key, appended otherwise.
CartSet(c, k, q) ==
    IF k \in CartKeys(c)
    THEN [i \in DOMAIN c |-> IF c[i].pid = k THEN [pid |-> k, qty |-> q] ELSE c[i]]
    ELSE Append(c, [pid |-> k, qty |-> q])

\* cart.pop(k, None)
CartPop(c, k) == SelectSeq(c, LAMBDA e : e.pid # k)

\* add_to_cart with the quantity taken as sent: no max(1, qty).
CartAddUnclamped(c, pid, qty) == CartSet(c, ToStr(pid), CartGet(c, ToStr(pid), 0) + qty)

\* add_to_cart's change of the cart: cart[str(pid)] = cart.get(str(pid), 0) + max(1, qty)
CartAdd(c, pid, qty) == CartSet(c, ToStr(pid), CartGet(c, ToStr(pid), 0) + Max(1, qty))

\* The update that stores the quantity even when it is zero: no pop.
CartUpdateKeepsZero(c, pid, qty) == CartSet(c, pid, Max(0, qty))

\* cart_view's "update": qty = max(0, qty); 0 pops the key, otherwise cart[pid] = qty
CartUpdate(c, pid, qty) ==
    LET q == Max(0, qty)
    IN  IF q = 0 THEN CartPop(c, pid) ELSE CartSet(c, pid, q)

\* ------------------------------------------------------------- the session
\* The session is a dict; the model keeps its keys "cart" and "_user_id"
\* (flask_login's key).  get_cart() is session.setdefault("cart", {}).
SessionWithCart(s) == IF "cart" \in DOMAIN s THEN s ELSE DictSet(s, "cart", <<>>)

get_cart(s) == SessionWithCart(s)["cart"]

\* ------------------------------------------------------------ cart_items()
\* cart_items() with line_total = p.price: the quantity forgotten.
RECURSIVE LineItemsPriceOnly(_, _)
LineItemsPriceOnly(c, by_id) ==
    IF c = <<>> THEN <<>>
    ELSE LET e == Head(c)
             id == ToInt(e.pid)
         IN  IF id \notin DOMAIN by_id
             THEN LineItemsPriceOnly(Tail(c), by_id)
             ELSE <<[product |-> [id |-> id, title |-> by_id[id].title,
                                  price |-> by_id[id].price],
                     qty |-> e.qty,
                     line_total |-> by_id[id].price]>>
                  \o LineItemsPriceOnly(Tail(c), by_id)

\* for pid, qty in c.items(): the line items of the entries whose product the
\* query found, in the cart's order.
RECURSIVE LineItems(_, _)
LineItems(c, by_id) ==
    IF c = <<>> THEN <<>>
    ELSE LET e == Head(c)
             id == ToInt(e.pid)
         IN  IF id \notin DOMAIN by_id
             THEN LineItems(Tail(c), by_id)
             ELSE <<[product |-> [id |-> id, title |-> by_id[id].title,
                                  price |-> by_id[id].price],
                     qty |-> e.qty,
                     line_total |-> by_id[id].price * e.qty]>>
                  \o LineItems(Tail(c), by_id)

\* total = 0.0; total += line_total for each item, in order.
RECURSIVE SumLineTotals(_)
SumLineTotals(items) ==
    IF items = <<>> THEN 0
    ELSE SumLineTotals(SubSeq(items, 1, Len(items) - 1)) + items[Len(items)].line_total

\* cart_items() on cart c against the Product table: ids = [int(pid) ...]
\* raises ValueError on a key that is no integer, before any query.
cart_items(c, table) ==
    IF \E k \in CartKeys(c) : ~IsInt(k)
    THEN [raised |-> TRUE, items |-> <<>>, total |-> 0]
    ELSE LET ids == {ToInt(k) : k \in CartKeys(c)}
             by_id == [id \in ids \cap DOMAIN table |-> table[id]]
             items == LineItems(c, by_id)
         IN  [raised |-> FALSE, items |-> items, total |-> SumLineTotals(items)]

\* ------------------------------------------------------------------ strings
\* Strings whose characters the code inspects (an email, a name) are sequences
\* of characters; strings the code only parses or uses as keys are TLA+ strings.
LowerChar(ch) == CASE ch = "A" -> "a" [] ch = "B" -> "b" [] OTHER -> ch

\* str.lower()
Lower(s) == [i \in DOMAIN s |-> LowerChar(s[i])]

RECURSIVE LStrip(_)
LStrip(s) == IF s # <<>> /\ Head(s) = " " THEN LStrip(Tail(s)) ELSE s

RECURSIVE RStrip(_)
RStrip(s) ==
    IF s # <<>> /\ s[Len(s)] = " " THEN RStrip(SubSeq(s, 1, Len(s) - 1)) ELSE s

\* str.strip()
Strip(s) == RStrip(LStrip(s))

\* The email normalised without lower().
NormEmailKeepsCase(form) == Strip(form["email"])

\* request.form["email"].lower().strip()
NormEmail(form) == Strip(Lower(form["email"]))

\* bcrypt is an opaque capability: a digest that verifies exactly its password.
generate_password_hash(password) == <<"bcrypt", password>>

check_password(user, password) == user.password_hash = generate_password_hash(password)

\* ------------------------------------------------------------------- state
\* The seeded catalog (seed() inserts products 1..5; the model keeps two).
ProductIds == {1, 2}
Prices == {1, 2}
SeedCatalog ==
    [id \in ProductIds |-> [title |-> IF id = 1 THEN "Wireless Headphones" ELSE "Smart Watch",
                            price |-> id]]

\* The request slots of one browser: two requests may be in flight at once.
Reqs == {1, 2}

VARIABLES
    cookie,    \* the session the browser holds (the signed session cookie)
    products,  \* the Product table: id -> [title, price]
    orders,    \* the Order table, in insertion order
    users,     \* the User table, in insertion order
    req,       \* req[r]: the request in slot r and how far it has got
    nreq       \* number of requests sent so far

vars == <<cookie, products, orders, users, req, nreq>>

IdleReq ==
    [pc |-> "idle", route |-> "", method |-> "", arg |-> 0, form |-> EmptyDict,
     sess |-> EmptyDict, modified |-> FALSE, items |-> <<>>, total |-> 0,
     status |-> 0, flash |-> "", ref |-> 0]

\* The view function returned (or aborted) with this status and flashed this
\* message; the session is saved into the response only when it was modified.
\* The record keeps the request's route, method, argument and form.
Done(q, status, flash, s, modified) ==
    [q EXCEPT !.pc = "done", !.status = status, !.flash = flash,
              !.modified = modified, !.sess = IF modified THEN s ELSE q.sess,
              !.items = <<>>, !.total = 0]

\* An unhandled exception: Flask answers 500.  handle_exception still runs
\* save_session unless exceptions propagate (debug server), so a modified
\* session is saved or lost.
Crash(q, s, modified) == {Done(q, 500, "", s, modified /\ saved) : saved \in BOOLEAN}

\* render_template(): inject_cart_count calls get_cart(), which inserts an
\* empty cart into a session that has none.
Render(q, status, flash, s, modified) ==
    LET s2 == SessionWithCart(s)
    IN  Done(q, status, flash, s2, modified \/ s2 # s)

\* render_template("cart.html" or "checkout.html", items=items, total=total):
\* the page shows the line items and the total of cart_items().
Page(q, s, modified, ci) ==
    [Render(q, 200, "", s, modified) EXCEPT !.items = ci.items, !.total = ci.total]

\* current_user.is_authenticated: flask_login loads the user of "_user_id".
Authenticated(s, table) ==
    "_user_id" \in DOMAIN s /\ \E i \in DOMAIN table : table[i].id = s["_user_id"]

\* ---------------------------------------------------------------- handlers
\* add_to_cart(pid): the outcomes of the view function.  An absent qty
\* field defaults to 1, and int(1) is 1, as is int("1").
add_to_cart(q, table) ==
    LET raw == DictGet(q.form, "qty", "1")
        s == SessionWithCart(q.sess)
    IN  IF ~IsInt(raw) THEN Crash(q, q.sess, FALSE)
        ELSE IF q.arg \notin DOMAIN table THEN {Done(q, 404, "", q.sess, FALSE)}
        ELSE {Done(q, 302, "Added to cart.",
                   DictSet(s, "cart", CartAdd(s["cart"], q.arg, ToInt(raw))), TRUE)}

\* The POST branch of cart_view up to session.modified = True: the session
\* after the action, or raised when int() fails.
cart_post(q) ==
    LET action == DictGet(q.form, "action", "None")
        pid == DictGet(q.form, "pid", "None")
        raw == DictGet(q.form, "qty", "1")
        s == SessionWithCart(q.sess)
    IN  IF action = "update"
        THEN IF ~IsInt(raw)
             THEN [raised |-> TRUE, sess |-> s]
             ELSE [raised |-> FALSE,
                   sess |-> DictSet(s, "cart", CartUpdate(s["cart"], pid, ToInt(raw)))]
        ELSE IF action = "clear"
        THEN [raised |-> FALSE, sess |-> DictSet(s, "cart", <<>>)]
        ELSE [raised |-> FALSE, sess |-> s]

\* cart_view(): the outcomes of the view function.
cart_view(q, table) ==
    IF q.method = "POST"
    THEN LET p == cart_post(q)
         IN  IF p.raised THEN Crash(q, p.sess, p.sess # q.sess)
             ELSE IF cart_items(p.sess["cart"], table).raised
             THEN Crash(q, p.sess, TRUE)
             ELSE {Page(q, p.sess, TRUE, cart_items(p.sess["cart"], table))}
    ELSE LET s == SessionWithCart(q.sess)
         IN  IF cart_items(s["cart"], table).raised
             THEN Crash(q, s, s # q.sess)
             ELSE {Page(q, s, s # q.sess, cart_items(s["cart"], table))}

\* checkout() without the "if not items" branch.
checkout_query_unguarded(q, table) ==
    LET s == SessionWithCart(q.sess)
        ci == cart_items(s["cart"], table)
    IN  IF ci.raised THEN Crash(q, s, s # q.sess)
        ELSE IF q.method # "POST" THEN {Page(q, s, s # q.sess, ci)}
        ELSE {[q EXCEPT !.pc = "queried", !.sess = s, !.modified = (s # q.sess),
                        !.items = ci.items, !.total = ci.total]}

\* checkout() up to the commit: cart_items(), the GET page, the empty-cart
\* redirect, or the request with its line items waiting for the commit.
checkout_query(q, table) ==
    LET s == SessionWithCart(q.sess)
        ci == cart_items(s["cart"], table)
    IN  IF ci.raised THEN Crash(q, s, s # q.sess)
        ELSE IF q.method # "POST" THEN {Page(q, s, s # q.sess, ci)}
        ELSE IF ci.items = <<>> THEN {Done(q, 302, "Your cart is empty.", s, TRUE)}
        ELSE {[q EXCEPT !.pc = "queried", !.sess = s, !.modified = (s # q.sess),
                        !.items = ci.items, !.total = ci.total]}

\* order_items = [{product_id, title, qty, price} for it in items]
order_items(items) ==
    [i \in DOMAIN items |->
        [product_id |-> items[i].product.id, title |-> items[i].product.title,
         qty |-> items[i].qty, price |-> items[i].product.price]]

\* Order(user_id=..., items_json=json.dumps(order_items), total=total); the
\* id is the table's next row id.  json.dumps of this list of ints, floats
\* and strings decodes to the same list, which the model stores.
NewOrder(q, otable, utable) ==
    [id |-> Len(otable) + 1,
     user_id |-> IF Authenticated(q.sess, utable) THEN q.sess["_user_id"] ELSE NoId,
     items_json |-> order_items(q.items),
     total |-> q.total]

\* checkout() after a successful commit: session["cart"] = {}, the flash
\* "Order #{order.id} placed successfully!", redirect.
checkout_placed(q, order) ==
    [Done(q, 302, "Order placed successfully!", DictSet(q.sess, "cart", <<>>), TRUE)
        EXCEPT !.ref = order.id]

\* checkout() that clears the cart before the commit, which then raises.
checkout_failed_after_clear(q) == Crash(q, DictSet(q.sess, "cart", <<>>), TRUE)

\* checkout() when db.session.commit() raises: nothing after it runs.
checkout_failed(q) == Crash(q, q.sess, q.modified)

\* User.query.filter_by(email=email).first(): the row's index, 0 for None.
UserByEmail(table, email) ==
    IF \E i \in DOMAIN table : table[i].email = email
    THEN CHOOSE i \in DOMAIN table :
            table[i].email = email /\ \A j \in 1..(i - 1) : table[j].email # email
    ELSE 0

\* register() up to the commit: the GET page, the "already registered"
\* redirect, or the request waiting for the commit.
register_query(q, table) ==
    IF q.method # "POST" THEN {Render(q, 200, "", q.sess, FALSE)}
    ELSE IF UserByEmail(table, NormEmail(q.form)) # 0
    THEN {Done(q, 302, "Email already registered.", q.sess, TRUE)}
    ELSE {[q EXCEPT !.pc = "queried"]}

\* User(name=name, email=email) with set_password(password).
NewUser(q, table) ==
    [id |-> Len(table) + 1,
     name |-> Strip(q.form["name"]),
     email |-> NormEmail(q.form),
     password_hash |-> generate_password_hash(q.form["password"])]

\* register() after a successful commit.
register_placed(q) == Done(q, 302, "Registration successful. Please login.", q.sess, TRUE)

\* The unique constraint of User.email (unique=True) lets the insert through.
EmailUnique(table, email) == \A i \in DOMAIN table : table[i].email # email

\* login(): the outcomes of the view function.
login(q, table) ==
    IF q.method # "POST" THEN {Render(q, 200, "", q.sess, FALSE)}
    ELSE LET i == UserByEmail(table, NormEmail(q.form))
         IN  IF i # 0 /\ check_password(table[i], q.form["password"])
             THEN {Done(q, 302, "Welcome back!",
                        DictSet(q.sess, "_user_id", table[i].id), TRUE)}
             ELSE {Render(q, 200, "Invalid credentials.", q.sess, TRUE)}

\* logout(): login_required redirects an anonymous request to the login page
\* (with a flash); logout_user() drops the user id from the session.
logout(q, table) ==
    IF ~Authenticated(q.sess, table)
    THEN {Done(q, 302, "Please log in to access this page.", q.sess, TRUE)}
    ELSE {Done(q, 302, "Logged out.", DictDel(q.sess, "_user_id"), TRUE)}

\* --------------------------------------------------------------- the inputs
\* Form values of qty: integers, a non-numeric string; the field may be absent.
QtyForms == {EmptyDict} \cup {[qty |-> v] : v \in {"-1", "0", "2", "abc"}}

\* Form values of pid in a cart update: canonical ids, an id with a leading
\* zero, and a string that is no integer.
FormPids == {"1", "2", "01", "x"}

CartForms ==
    {[action |-> "clear"]}
    \cup {[action |-> "update", pid |-> k] @@ f : k \in FormPids, f \in QtyForms}

Credentials(emails, passwords) ==
    {[name |-> <<"n", " ">>, email |-> e, password |-> p] : e \in emails, p \in passwords}

\* The routes a browser requests.
Routes ==
    {<<"add", "POST">>, <<"cart", "GET">>, <<"cart", "POST">>,
     <<"checkout", "GET">>, <<"checkout", "POST">>,
     <<"register", "GET">>, <<"register", "POST">>,
     <<"login", "GET">>, <<"login", "POST">>, <<"logout", "GET">>}

\* The request in slot r with the route argument and the form of the request.
\* They are drawn when the view function runs, the only place that reads them.
WithInput(r, arg, form) == [req[r] EXCEPT !.arg = arg, !.form = form]

\* The quantity an add request would store stays within MaxQty.
WithinMaxQty(q) ==
    IsInt(DictGet(q.form, "qty", "1"))
    => CartGet(get_cart(q.sess), ToStr(q.arg), 0)
         + Max(1, ToInt(DictGet(q.form, "qty", "1"))) <= MaxQty

\* ------------------------------------------------------------------ actions
Init ==
    /\ cookie = EmptyDict
    /\ products = SeedCatalog
    /\ orders = <<>>
    /\ users = <<>>
    /\ req = [r \in Reqs |-> IdleReq]
    /\ nreq = 0

\* The browser sends a request in slot r with the cookie it holds, and Flask
\* opens the session from it.
Send(r, routes) ==
    /\ req[r].pc = "idle"
    /\ nreq < MaxRequests
    /\ \E rt \in routes :
          req' = [req EXCEPT ![r] = [IdleReq EXCEPT !.pc = "open", !.route = rt[1],
                                                    !.method = rt[2], !.sess = cookie]]
    /\ nreq' = nreq + 1
    /\ UNCHANGED <<cookie, products, orders, users>>

\* The browser receives the response and stores the session cookie it sets.
Recv(r) ==
    /\ req[r].pc = "done"
    /\ cookie' = IF req[r].modified THEN req[r].sess ELSE cookie
    /\ req' = [req EXCEPT ![r] = IdleReq]
    /\ UNCHANGED <<products, orders, users, nreq>>

\* Slot r holds an open request of this route and method.
Open(r, route, method) ==
    /\ req[r].pc = "open"
    /\ req[r].route = route
    /\ req[r].method = method

\* The view function of the request in slot r ends in one of its outcomes.
Respond(r, outcomes) ==
    /\ \E out \in outcomes : req' = [req EXCEPT ![r] = out]
    /\ UNCHANGED <<cookie, products, orders, users, nreq>>

AddToCart(r, forms) ==
    /\ Open(r, "add", "POST")
    /\ \E id \in ProductIds, f \in forms :
          /\ WithinMaxQty(WithInput(r, id, f))
          /\ Respond(r, add_to_cart(WithInput(r, id, f), products))

CartGetPage(r) ==
    /\ Open(r, "cart", "GET")
    /\ Respond(r, cart_view(req[r], products))

CartPost(r, forms) ==
    /\ Open(r, "cart", "POST")
    /\ \E f \in forms : Respond(r, cart_view(WithInput(r, 0, f), products))

CheckoutQuery(r) ==
    /\ \E m \in {"GET", "POST"} : Open(r, "checkout", m)
    /\ Respond(r, checkout_query(req[r], products))

\* A checkout that writes over the latest Order row instead of inserting.
CheckoutCommitOverwrites(r) ==
    /\ req[r].pc = "queried"
    /\ req[r].route = "checkout"
    /\ Len(orders) < MaxOrders
    /\ orders' = IF orders = <<>>
                 THEN <<NewOrder(req[r], orders, users)>>
                 ELSE [orders EXCEPT ![Len(orders)] =
                          [NewOrder(req[r], orders, users) EXCEPT !.id = Len(orders)]]
    /\ req' = [req EXCEPT ![r] = checkout_placed(req[r], NewOrder(req[r], orders, users))]
    /\ UNCHANGED <<cookie, products, users, nreq>>

\* A checkout that is deduplicated: when an Order with the same user, item
\* snapshots and total exists, it is answered with that Order.
CheckoutCommitDeduplicated(r) ==
    /\ req[r].pc = "queried"
    /\ req[r].route = "checkout"
    /\ Len(orders) < MaxOrders
    /\ LET new == NewOrder(req[r], orders, users)
           same == {i \in DOMAIN orders :
                      [orders[i] EXCEPT !.id = 0] = [new EXCEPT !.id = 0]}
       IN  IF same = {}
           THEN /\ orders' = Append(orders, new)
                /\ req' = [req EXCEPT ![r] = checkout_placed(req[r], new)]
           ELSE /\ orders' = orders
                /\ req' = [req EXCEPT ![r] =
                             checkout_placed(req[r], orders[CHOOSE i \in same : TRUE])]
    /\ UNCHANGED <<cookie, products, users, nreq>>

\* db.session.add(order); db.session.commit() succeeds, and the rest of
\* checkout() runs.
CheckoutCommit(r) ==
    /\ req[r].pc = "queried"
    /\ req[r].route = "checkout"
    /\ Len(orders) < MaxOrders
    /\ orders' = Append(orders, NewOrder(req[r], orders, users))
    /\ req' = [req EXCEPT ![r] = checkout_placed(req[r], NewOrder(req[r], orders, users))]
    /\ UNCHANGED <<cookie, products, users, nreq>>

\* db.session.commit() raises: the insert is rolled back.
CheckoutCommitFails(r) ==
    /\ req[r].pc = "queried"
    /\ req[r].route = "checkout"
    /\ \E out \in checkout_failed(req[r]) : req' = [req EXCEPT ![r] = out]
    /\ UNCHANGED <<cookie, products, orders, users, nreq>>

RegisterQuery(r, creds) ==
    \/ /\ Open(r, "register", "GET")
       /\ Respond(r, register_query(req[r], users))
    \/ /\ Open(r, "register", "POST")
       /\ \E c \in creds : Respond(r, register_query(WithInput(r, 0, c), users))

\* db.session.add(user); db.session.commit() succeeds.
RegisterCommit(r) ==
    /\ req[r].pc = "queried"
    /\ req[r].route = "register"
    /\ Len(users) < MaxUsers
    /\ EmailUnique(users, NormEmail(req[r].form))
    /\ users' = Append(users, NewUser(req[r], users))
    /\ req' = [req EXCEPT ![r] = register_placed(req[r])]
    /\ UNCHANGED <<cookie, products, orders, nreq>>

\* db.session.commit() raises (the unique constraint, or the database).
RegisterCommitFails(r) ==
    /\ req[r].pc = "queried"
    /\ req[r].route = "register"
    /\ \E out \in Crash(req[r], req[r].sess, FALSE) : req' = [req EXCEPT ![r] = out]
    /\ UNCHANGED <<cookie, products, orders, users, nreq>>

Login(r, creds) ==
    \/ /\ Open(r, "login", "GET")
       /\ Respond(r, login(req[r], users))
    \/ /\ Open(r, "login", "POST")
       /\ \E c \in creds : Respond(r, login(WithInput(r, 0, c), users))

Logout(r) ==
    /\ Open(r, "logout", "GET")
    /\ Respond(r, logout(req[r], users))

\* The catalog is changed outside the request handlers (an administrator
\* working on the Product table).
SetPrice ==
    \E id \in DOMAIN products, v \in Prices :
        /\ v # products[id].price
        /\ products' = [products EXCEPT ![id].price = v]
        /\ UNCHANGED <<cookie, orders, users, req, nreq>>

DeleteProduct ==
    \E id \in DOMAIN products :
        /\ products' = [x \in DOMAIN products \ {id} |-> products[x]]
        /\ UNCHANGED <<cookie, orders, users, req, nreq>>

\* ----------------------------------------------------------- specifications
\* The shop used as section 5 of the spec assumes: one request at a time.
ShopCreds == Credentials({<<"A">>}, {"p"})
ShopLogins == Credentials({<<"A">>}, {"p", "wrong"})

Next ==
    \/ Send(1, Routes)
    \/ Recv(1)
    \/ AddToCart(1, QtyForms)
    \/ CartGetPage(1)
    \/ CartPost(1, CartForms)
    \/ CheckoutQuery(1)
    \/ CheckoutCommit(1)
    \/ CheckoutCommitFails(1)
    \/ RegisterQuery(1, ShopCreds)
    \/ RegisterCommit(1)
    \/ RegisterCommitFails(1)
    \/ Login(1, ShopLogins)
    \/ Logout(1)
    \/ SetPrice
    \/ DeleteProduct

Spec == Init /\ [][Next]_vars

\* The shop with overlapping requests of one browser (a double submit): both
\* slots are used.  The forms are the ones a double-submitted page sends.
ConcurrentRoutes == {<<"add", "POST">>, <<"cart", "POST">>, <<"checkout", "POST">>}
ConcurrentQtyForms == {EmptyDict}
ConcurrentCartForms ==
    {[action |-> "clear"], [action |-> "update", pid |-> "1", qty |-> "0"]}

NextConcurrent ==
    \/ \E r \in Reqs : Send(r, ConcurrentRoutes)
    \/ \E r \in Reqs : Recv(r)
    \/ \E r \in Reqs : AddToCart(r, ConcurrentQtyForms)
    \/ \E r \in Reqs : CartPost(r, ConcurrentCartForms)
    \/ \E r \in Reqs : CheckoutQuery(r)
    \/ \E r \in Reqs : CheckoutCommit(r)
    \/ \E r \in Reqs : CheckoutCommitFails(r)
    \/ SetPrice

SpecConcurrent == Init /\ [][NextConcurrent]_vars

\* The cart calculator as a function of a cart and a catalog: the Product
\* table starts as any catalog and then stays as it is, the cart is built by
\* update requests with any pid a form can carry, and the pages that show
\* cart_items() are requested.
CalcKeys == {"1", "2", "01", "3", "x"}
CalcCatalogs ==
    UNION {[ids -> {[title |-> "Smart Watch", price |-> v] : v \in Prices}] :
             ids \in SUBSET ProductIds}
CalcRoutes == {<<"cart", "GET">>, <<"cart", "POST">>, <<"checkout", "GET">>}
CalcForms ==
    {[action |-> "update", pid |-> k, qty |-> n] : k \in CalcKeys, n \in {"0", "1", "2"}}

InitCalc ==
    /\ cookie = EmptyDict
    /\ products \in CalcCatalogs
    /\ orders = <<>>
    /\ users = <<>>
    /\ req = [r \in Reqs |-> IdleReq]
    /\ nreq = 0

NextCalc ==
    \/ Send(1, CalcRoutes)
    \/ CartGetPage(1)
    \/ CartPost(1, CalcForms)
    \/ CheckoutQuery(1)
    \/ Recv(1)

SpecCalc == InitCalc /\ [][NextCalc]_vars

\* The cart operations as functions of a cart: the session starts with any
\* of these carts, an add request is served, and then an update request for
\* the same product.  Slot 2 keeps the add request as answered, slot 1 serves.
MaxCartLen == 2
CartOpKeys == {"1", "2", "01"}
CartOpEntries == {[pid |-> k, qty |-> n] : k \in CartOpKeys, n \in 1..MaxQty}
CartOpCarts ==
    {c \in UNION {[1..n -> CartOpEntries] : n \in 0..MaxCartLen} :
        \A i, j \in DOMAIN c : i # j => c[i].pid # c[j].pid}
CartOpRoutes == {<<"add", "POST">>, <<"cart", "POST">>}
CartOpQtyForms == {EmptyDict} \cup {[qty |-> v] : v \in {"-1", "0", "2"}}
CartOpForms ==
    {[action |-> "update", pid |-> k] @@ f : k \in CartOpKeys, f \in CartOpQtyForms}

InitCartOps ==
    /\ cookie \in {[cart |-> c] : c \in CartOpCarts}
    /\ products = SeedCatalog
    /\ orders = <<>>
    /\ users = <<>>
    /\ req = [r \in Reqs |-> IdleReq]
    /\ nreq = 0

\* The browser receives the response in slot 1 and keeps a copy of the
\* answered request in slot 2, for the next request to be compared with.
RecvKeep ==
    /\ req[1].pc = "done"
    /\ cookie' = IF req[1].modified THEN req[1].sess ELSE cookie
    /\ req' = [req EXCEPT ![1] = IdleReq, ![2] = [req[1] EXCEPT !.pc = "kept", !.sess = cookie]]
    /\ UNCHANGED <<products, orders, users, nreq>>

NextCartOps ==
    \/ Send(1, CartOpRoutes)
    \/ AddToCart(1, CartOpQtyForms)
    \/ CartPost(1, CartOpForms)
    \/ RecvKeep

SpecCartOps == InitCartOps /\ [][NextCartOps]_vars

\* Registration and login, with overlapping requests: emails in both cases
\* and with surrounding blanks.
AuthRoutes ==
    {<<"register", "GET">>, <<"register", "POST">>,
     <<"login", "GET">>, <<"login", "POST">>, <<"logout", "GET">>}
AuthEmails == {<<"A">>, <<"a">>, <<" ", "a">>, <<"B", " ">>, <<"a", "B">>, <<"A", "b">>}
AuthCreds == Credentials(AuthEmails, {"p", "q"})

NextAuth ==
    \/ \E r \in Reqs : Send(r, AuthRoutes)
    \/ \E r \in Reqs : Recv(r)
    \/ \E r \in Reqs : RegisterQuery(r, AuthCreds)
    \/ \E r \in Reqs : RegisterCommit(r)
    \/ \E r \in Reqs : RegisterCommitFails(r)
    \/ \E r \in Reqs : Login(r, AuthCreds)
    \/ \E r \in Reqs : Logout(r)

SpecAuth == Init /\ [][NextAuth]_vars

\* ------------------------------------------------------------------- claims
\* Every cart held anywhere: by the browser, or by a request or response.
CartsHeld == {get_cart(cookie)} \cup {get_cart(req[r].sess) : r \in Reqs}

\* Sum of qty * price over the line snapshots of an order.
RECURSIVE SnapshotSum(_)
SnapshotSum(lines) ==
    IF lines = <<>> THEN 0
    ELSE lines[1].qty * lines[1].price + SnapshotSum(Tail(lines))

\* C1: every persisted Order has total = sum over its own item snapshots of
\* qty * price, whatever adds, updates, clears, price changes and checkouts
\* came before.
C1_OrderTotalIsSnapshotSum ==
    \A i \in DOMAIN orders : orders[i].total = SnapshotSum(orders[i].items_json)

\* C1 witness: an order of two lines exists, and the live price of one of its
\* products has since moved away from the price in the snapshot.
C1_Witness ==
    \E i \in DOMAIN orders :
        /\ Len(orders[i].items_json) = 2
        /\ \E k \in DOMAIN orders[i].items_json :
              LET line == orders[i].items_json[k]
              IN  /\ line.product_id \in DOMAIN products
                  /\ products[line.product_id].price # line.price
                  /\ line.qty = 2

\* C2: checkout clears the session cart only after the Order is persisted.
\* A commit that raises leaves no new Order and a response whose session is
\* the one the request came with; a commit that succeeds adds one Order and
\* answers with an empty cart, which is what the browser then holds.  A
\* request still waiting for its commit has its cart untouched.
C2_CommitStep(r) ==
    LET q == req[r]
        a == req'[r]
    IN  /\ (q.pc = "queried" /\ q.route = "checkout" /\ a.pc = "done" /\ a.status = 500)
              => /\ orders' = orders
                 /\ a.sess = q.sess
        /\ (q.pc = "queried" /\ q.route = "checkout" /\ a.pc = "done" /\ a.status # 500)
              => /\ Len(orders') = Len(orders) + 1
                 /\ a.modified
                 /\ get_cart(a.sess) = <<>>
        /\ (q.pc = "done" /\ q.route = "checkout" /\ q.ref # 0 /\ a.pc = "idle")
              => get_cart(cookie') = <<>>
        /\ (q.pc = "done" /\ q.route = "checkout" /\ q.status = 500 /\ a.pc = "idle")
              => get_cart(cookie') = get_cart(cookie)
        /\ (q.pc = "open" /\ q.route = "checkout" /\ a.pc = "queried")
              => /\ orders' = orders
                 /\ get_cart(a.sess) = get_cart(q.sess)

C2_PersistThenClear == [][\A r \in Reqs : C2_CommitStep(r)]_vars

\* C2 witness: after one checkout was placed, the commit of a later checkout
\* raised, and the browser still holds the cart it sent.
C2_Witness ==
    /\ Len(orders) = 1
    /\ req[1].pc = "done" /\ req[1].route = "checkout" /\ req[1].method = "POST"
    /\ req[1].status = 500
    /\ get_cart(req[1].sess) # <<>>
    /\ get_cart(cookie) = get_cart(req[1].sess)

\* The resolved item list of cart c is empty: the cart is empty, or every
\* product id in it is absent from the catalog.
ResolvesToNothing(c, table) ==
    \A i \in DOMAIN c : IsInt(c[i].pid) /\ ToInt(c[i].pid) \notin DOMAIN table

\* C3: a checkout POST whose resolved item list is empty creates no Order and
\* leaves the cart mapping unchanged: it is answered at once with the
\* empty-cart warning, its response carries the cart it came with, and the
\* browser holds the same cart after receiving it.
C3_Step(r) ==
    LET q == req[r]
        a == req'[r]
    IN  /\ (/\ q.pc = "open" /\ q.route = "checkout" /\ q.method = "POST"
            /\ a.pc # "open"
            /\ ResolvesToNothing(get_cart(q.sess), products))
              => /\ a.pc = "done"
                 /\ a.flash = "Your cart is empty."
                 /\ orders' = orders
                 /\ get_cart(a.sess) = get_cart(q.sess)
        /\ (q.pc = "done" /\ q.flash = "Your cart is empty." /\ a.pc = "idle")
              => /\ orders' = orders
                 /\ get_cart(cookie') = get_cart(cookie)

C3_EmptyCheckoutCreatesNothing ==
    /\ [][\A r \in Reqs : C3_Step(r)]_vars
    /\ [](\A i \in DOMAIN orders : orders[i].items_json # <<>>)

\* C3 witness: a checkout POST of a cart that holds only a product no longer
\* in the catalog was answered with the warning; no Order exists and the
\* browser still holds that cart.
C3_Witness ==
    /\ req[1].pc = "done" /\ req[1].route = "checkout" /\ req[1].method = "POST"
    /\ req[1].flash = "Your cart is empty."
    /\ get_cart(req[1].sess) # <<>>
    /\ get_cart(cookie) = get_cart(req[1].sess)
    /\ orders = <<>>

\* C4: whatever integer quantities (zero and negative included) the requests
\* carried, every key of every session cart maps to a quantity >= 1.
C4_QuantitiesAtLeastOne ==
    \A c \in CartsHeld : \A i \in DOMAIN c : c[i].qty >= 1

\* C4 witness: an add with a negative quantity was served for a product the
\* cart already held once, and the cart now holds it twice.
C4_Witness ==
    /\ req[1].pc = "done" /\ req[1].route = "add" /\ req[1].status = 302
    /\ DictGet(req[1].form, "qty", "1") = "-1"
    /\ get_cart(cookie) = <<[pid |-> "1", qty |-> 1]>>
    /\ get_cart(req[1].sess) = <<[pid |-> "1", qty |-> 2]>>

\* C9: an Order, once created, keeps its user reference, its item snapshots
\* and its total through every later step: cart changes, further checkouts,
\* price changes and deletions of its products.
C9_OrdersNeverChange ==
    [][\A i \in DOMAIN orders : i \in DOMAIN orders' /\ orders'[i] = orders[i]]_vars

\* C9 witness: two Orders exist, and a product of the first has been deleted
\* or repriced since it was placed.
C9_Witness ==
    /\ Len(orders) = 2
    /\ \E k \in DOMAIN orders[1].items_json :
          LET line == orders[1].items_json[k]
          IN  \/ line.product_id \notin DOMAIN products
              \/ products[line.product_id].price # line.price

\* The entries of cart c whose pid exists in the catalog.
EntriesInCatalog(c, table) ==
    SelectSeq(c, LAMBDA e : IsInt(e.pid) /\ ToInt(e.pid) \in DOMAIN table)

RECURSIVE PricedSum(_, _)
PricedSum(entries, table) ==
    IF entries = <<>> THEN 0
    ELSE table[ToInt(entries[1].pid)].price * entries[1].qty
         + PricedSum(Tail(entries), table)

\* What the claim says a page shows for cart c: one line per entry whose pid
\* is in the catalog, and the sum of price * qty over those entries.
ShowsCalculation(q, c, table) ==
    LET kept == EntriesInCatalog(c, table)
    IN  /\ q.status = 200
        /\ Len(q.items) = Len(kept)
        /\ \A i \in DOMAIN kept :
              /\ i \in DOMAIN q.items
              /\ q.items[i].product.id = ToInt(kept[i].pid)
              /\ q.items[i].qty = kept[i].qty
              /\ q.items[i].line_total = table[ToInt(kept[i].pid)].price * kept[i].qty
        /\ q.total = PricedSum(kept, table)

\* The request showed a page with the cart: the cart page (after a GET, or
\* after the update of a POST) or the checkout page.
ShowsCart(q) ==
    /\ q.pc = "done"
    /\ \/ q.route = "cart"
       \/ q.route = "checkout" /\ q.method = "GET"

\* C5: for every cart and catalog the calculator returns one line item per
\* entry whose pid is in the catalog and total = sum of price * qty over those
\* entries; the other entries are skipped without error; an empty cart gives
\* no items and total 0.
C5_CalculatorTotal ==
    \A r \in Reqs :
        ShowsCart(req[r]) => ShowsCalculation(req[r], get_cart(req[r].sess), products)

\* C5 on the carts whose keys are all integers: the part of the claim the
\* code does satisfy.
C5_OnIntegerKeys ==
    \A r \in Reqs :
        (ShowsCart(req[r]) /\ req[r].status # 500)
            => ShowsCalculation(req[r], get_cart(req[r].sess), products)

\* No two User rows have emails that are equal ignoring case.
NoCaseDuplicate ==
    \A i, j \in DOMAIN users : i # j => Lower(users[i].email) # Lower(users[j].email)

\* A registration whose email equals a registered one ignoring case is turned
\* away with the warning, and no table and no session changes.
C6_Step(r) ==
    LET q == req[r]
        a == req'[r]
    IN  (/\ q.pc = "open" /\ q.route = "register" /\ q.method = "POST"
         /\ a.pc # "open"
         /\ \E i \in DOMAIN users : Lower(users[i].email) = Lower(a.form["email"]))
            => /\ a.pc = "done"
               /\ a.flash = "Email already registered."
               /\ a.sess = q.sess
               /\ users' = users

\* C6: registering an email that equals a registered email ignoring letter
\* case fails and changes no state, so no two User rows ever have emails that
\* are equal ignoring case.
C6_NoDuplicateEmail == [][\A r \in Reqs : C6_Step(r)]_vars /\ []NoCaseDuplicate

\* C6 witness: with "a" registered, a registration of "A" was turned away
\* while one of "aB" went through.
C6_Witness ==
    /\ Len(users) = 2
    /\ users[1].email = <<"a">>
    /\ users[2].email = <<"a", "b">>
    /\ \E r \in Reqs :
          /\ req[r].pc = "done" /\ req[r].route = "register" /\ req[r].method = "POST"
          /\ req[r].form["email"] = <<"A">>
          /\ req[r].flash = "Email already registered."

\* An add request served, then an update of the same product to zero served.
AddThenUpdateZero ==
    /\ req[2].pc = "kept" /\ req[2].route = "add" /\ req[2].status = 302
    /\ req[1].pc = "done" /\ req[1].route = "cart" /\ req[1].status = 200
    /\ req[1].form = [action |-> "update", pid |-> ToStr(req[2].arg), qty |-> "0"]

CartBeforeAdd == get_cart(req[2].sess)
CartAfterUpdate == get_cart(req[1].sess)

\* C7 as claimed: add(cart, pid, qty) followed by update(cart, pid, 0)
\* returns the cart to the state it had before the add.
C7_AddUpdateZeroRestores == AddThenUpdateZero => CartAfterUpdate = CartBeforeAdd

\* C7 as amended: add followed by update to zero leaves the cart without an
\* entry for the product and with every other entry as it was, in order; that
\* is the cart before the add exactly when it had no entry for the product.
C7_AddUpdateZeroRemoves ==
    AddThenUpdateZero =>
        LET k == ToStr(req[2].arg)
        IN  /\ k \notin CartKeys(CartAfterUpdate)
            /\ \A i \in DOMAIN CartAfterUpdate : CartAfterUpdate[i].qty >= 1
            /\ CartAfterUpdate = SelectSeq(CartBeforeAdd, LAMBDA e : e.pid # k)
            /\ (k \notin CartKeys(CartBeforeAdd) => CartAfterUpdate = CartBeforeAdd)

\* C7 witness: the add and the update to zero were served on a cart that held
\* another product and not this one.
C7_Witness ==
    /\ AddThenUpdateZero
    /\ CartBeforeAdd # <<>>
    /\ ToStr(req[2].arg) \notin CartKeys(CartBeforeAdd)
    /\ DictGet(req[2].form, "qty", "1") = "2"

\* The request carried a qty that is no integer, to a view that reads it.
MalformedQty(q) ==
    /\ \/ q.route = "add"
       \/ q.route = "cart" /\ q.method = "POST" /\ DictGet(q.form, "action", "") = "update"
    /\ "qty" \in DOMAIN q.form
    /\ ~IsInt(q.form["qty"])

\* C8: a non-numeric quantity sent to add-to-cart or to the cart update is
\* clamped or rejected with a warning: the request is answered normally,
\* never with an unhandled server failure, and the cart keeps only positive
\* quantities.
C8_MalformedQtyHandled ==
    \A r \in Reqs :
        (req[r].pc = "done" /\ MalformedQty(req[r]))
            => /\ req[r].status # 500
               /\ \A i \in DOMAIN get_cart(req[r].sess) : get_cart(req[r].sess)[i].qty >= 1

\* Both slots hold a checkout that was placed and not yet received: two
\* checkout POSTs of the session that overlapped.
BothPlaced == \A r \in Reqs : req[r].pc = "done" /\ req[r].route = "checkout" /\ req[r].ref # 0

\* C10: checkout is not deduplicated within a session: two overlapping
\* checkout POSTs each persist an Order of their own.
C10_EachCheckoutItsOwnOrder ==
    BothPlaced =>
        /\ req[1].ref # req[2].ref
        /\ \A r \in Reqs : \E i \in DOMAIN orders : orders[i].id = req[r].ref
        /\ Len(orders) >= 2

\* C10 witness: both checkouts were placed from the same cart and the two
\* Orders have identical item snapshots and total.
C10_Witness ==
    /\ BothPlaced
    /\ Len(orders) = 2
    /\ orders[1].items_json = orders[2].items_json
    /\ orders[1].total = orders[2].total
    /\ orders[1].id # orders[2].id

====
